---- MODULE Spec2Model ----
(***************************************************************************)
(* Block identity (Merkle root, header, hash) and the validation pipeline  *)
(* of blockchain/block.py, as a state machine over one chain and one       *)
(* candidate block.                                                        *)
(*                                                                         *)
(* Strings are sequences of tokens (a token stands for a run of            *)
(* characters), so that concatenation, joining and splitting are the real  *)
(* string operations.  sha256_2_string is modelled as an injective         *)
(* function of its argument: the digest of s is s between two bracket      *)
(* tokens, which, like fixed-width hex digests, concatenates unambiguously.*)
(***************************************************************************)
EXTENDS Integers, Sequences, FiniteSets, TLC

VARIABLES
    chain,      \* blockchain.chain: blocks and the three indices
    blk,        \* the candidate Block object (NoBlock before construction)
    incl,       \* the include_merkle_root argument blk was constructed with
    mut,        \* header field assigned directly since construction ("none")
    result,     \* what the last is_valid call on blk produced (NoResult before)
    appended,   \* number of blocks added to the chain after genesis
    txs,        \* a transaction list as first given (Merkle engine alone)
    perm,       \* the same transactions, reordered
    roots       \* <<calculate_merkle_root(txs), calculate_merkle_root(perm)>>

vars == <<chain, blk, incl, mut, result, appended, txs, perm, roots>>

----------------------------------------------------------------------------
(* Bounds of the model *)

MaxLen == 6          \* longest transaction list given to the Merkle engine alone
MaxBlockTxs == 2     \* longest transaction list of a candidate block
MaxAppend == 2       \* blocks added to the chain after genesis

(* Program constant: the transaction limit of is_valid *)
MaxTxs == 900

----------------------------------------------------------------------------
(* Strings *)

Digit == <<"0", "1", "2", "3", "4", "5", "6", "7", "8", "9">>

RECURSIVE NatStr(_)
NatStr(n) == IF n < 10 THEN <<Digit[n + 1]>>
             ELSE NatStr(n \div 10) \o <<Digit[(n % 10) + 1]>>

\* str(n) for an int
IntStr(n) == IF n < 0 THEN <<"-">> \o NatStr(-n) ELSE NatStr(n)

\* str(b) for a bool
BoolStr(b) == IF b THEN <<"True">> ELSE <<"False">>

DigitVal(c) == CHOOSE d \in 0..9 : Digit[d + 1] = c

IsDigits(s) == Len(s) > 0 /\ \A k \in 1..Len(s) : \E d \in 0..9 : Digit[d + 1] = s[k]

RECURSIVE DigitsVal(_)
DigitsVal(s) == IF Len(s) = 1 THEN DigitVal(s[1])
                ELSE 10 * DigitsVal(SubSeq(s, 1, Len(s) - 1)) + DigitVal(s[Len(s)])

\* int(s) succeeds: an optional sign and at least one digit
IsInt(s) == \/ IsDigits(s)
            \/ Len(s) > 1 /\ s[1] \in {"-", "+"} /\ IsDigits(Tail(s))

\* int(s) where it succeeds
IntVal(s) == IF s[1] = "-" THEN 0 - DigitsVal(Tail(s))
             ELSE IF s[1] = "+" THEN DigitsVal(Tail(s))
             ELSE DigitsVal(s)

\* s.split(sep): the pieces of s between the separator tokens
RECURSIVE Split(_, _)
Split(s, sep) ==
    IF \A k \in 1..Len(s) : s[k] # sep THEN <<s>>
    ELSE LET p == CHOOSE k \in 1..Len(s) : s[k] = sep /\ \A m \in 1..(k - 1) : s[m] # sep
         IN  <<SubSeq(s, 1, p - 1)>> \o Split(SubSeq(s, p + 1, Len(s)), sep)

\* "".join(strs), by halves so that long lists stay shallow
RECURSIVE Concat(_)
Concat(strs) ==
    IF Len(strs) = 0 THEN <<>>
    ELSE IF Len(strs) = 1 THEN strs[1]
    ELSE LET h == Len(strs) \div 2
         IN  Concat(SubSeq(strs, 1, h)) \o Concat(SubSeq(strs, h + 1, Len(strs)))

\* util.encode_as_str: sep.join(str(x) for x in list); strs are the str(x)
RECURSIVE encode_as_str(_, _)
encode_as_str(strs, sep) ==
    IF Len(strs) = 0 THEN <<>>
    ELSE IF Len(strs) = 1 THEN strs[1]
    ELSE strs[1] \o <<sep>> \o encode_as_str(Tail(strs), sep)

\* the separator character of the header encoding (ASCII 96)
BACKTICK == "bq"

\* util.sha256_2_string, taken as injective
sha256_2_string(s) == <<"[">> \o s \o <<"]">>

\* util.nonempty_intersection of two collections of block hashes
nonempty_intersection(a, b) == a \cap b # {}

----------------------------------------------------------------------------
(* Transactions (external collaborator): a fixed universe of objects *)

Out(s, r, a) == [sender |-> s, receiver |-> r, amount |-> a]

Ref(h, i) == <<h, ":">> \o i

TxNames == {"t0", "ta", "tb", "tc", "td", "te", "tf", "tg", "th", "ti", "tj"}

\* input_refs of each transaction object
InputRefs(t) ==
    CASE t = "ta" -> <<Ref("t0", <<"0">>)>>
      [] t = "tb" -> <<Ref("t0", <<"0">>)>>
      [] t = "tc" -> <<Ref("t0", <<"0">>), Ref("t0", <<"1">>)>>
      [] t = "te" -> <<Ref("t0", <<"-", "1">>)>>
      [] t = "tf" -> <<Ref("ta", <<"0">>)>>
      [] t = "tg" -> <<Ref("ta", <<"0">>)>>
      [] t = "th" -> <<Ref("t0", <<"2">>)>>
      [] t = "ti" -> <<Ref("t0", <<"x">>)>>
      [] OTHER    -> <<>>

\* outputs of each transaction object
Outputs(t) ==
    CASE t = "t0" -> <<Out("G", "A", 2), Out("G", "A", 1)>>
      [] t = "ta" -> <<Out("A", "B", 2)>>
      [] t = "tb" -> <<Out("A", "C", 1)>>
      [] t = "tc" -> <<Out("A", "B", 3)>>
      [] t = "td" -> <<Out("A", "B", 1)>>
      [] t = "te" -> <<Out("A", "C", 1)>>
      [] t = "tf" -> <<Out("A", "C", 2)>>
      [] t = "tg" -> <<Out("B", "C", 2)>>
      [] t = "th" -> <<Out("A", "B", 1)>>
      [] OTHER    -> <<>>

\* tx.hash
TxHash(t) == <<t>>

\* tx.is_valid(), the structural check of the transaction itself
TxIsValid(t) == t # "tj"

\* str(tx)
TxStr(t) == <<t>>

----------------------------------------------------------------------------
(* Merkle engine *)

\* The while loop of calculate_merkle_root: zip(hashed_tx[0::2], hashed_tx[1::2])
\* pairs floor(n/2) neighbours and drops an unpaired last node.
RECURSIVE MerkleLoop(_)
MerkleLoop(hashed_tx) ==
    IF Len(hashed_tx) > 1
    THEN MerkleLoop([k \in 1..(Len(hashed_tx) \div 2) |->
                        sha256_2_string(hashed_tx[2 * k - 1] \o hashed_tx[2 * k])])
    ELSE hashed_tx[1]

calculate_merkle_root(transactions) ==
    LET hashed_tx == [k \in 1..Len(transactions) |->
                         sha256_2_string(TxStr(transactions[k]))]
    IN  IF Len(hashed_tx) = 0 THEN sha256_2_string(<<>>)
        ELSE IF Len(hashed_tx) = 1 THEN hashed_tx[1]
        ELSE IF Len(hashed_tx) % 2 # 0
             THEN MerkleLoop(Append(hashed_tx, hashed_tx[Len(hashed_tx)]))
             ELSE MerkleLoop(hashed_tx)

----------------------------------------------------------------------------
(* Block identity engine *)

unsealed_header(b) ==
    encode_as_str(<<IntStr(b.height), IntStr(b.timestamp), IntStr(b.target),
                    b.parent_hash, BoolStr(b.is_genesis), b.merkle>>, BACKTICK)

\* header that leaves the seal out
header_without_seal(b) == unsealed_header(b)

header(b) == encode_as_str(<<unsealed_header(b), IntStr(b.seal_data)>>, BACKTICK)

calculate_hash(b) == sha256_2_string(header(b))

\* Block.calculate_appropriate_target (abstract): a stand-in, one fixed target
calculate_appropriate_target == 1

\* Block.__init__; now is what int(time.time()) gave
BlockInit(height, transactions, parent_hash, is_genesis, include_merkle_root, now) ==
    LET b == [parent_hash  |-> parent_hash,
              height       |-> height,
              transactions |-> transactions,
              timestamp    |-> now,
              target       |-> calculate_appropriate_target,
              is_genesis   |-> is_genesis,
              merkle       |-> IF include_merkle_root
                               THEN calculate_merkle_root(transactions)
                               ELSE sha256_2_string(Concat([k \in 1..Len(transactions) |->
                                                               TxStr(transactions[k])])),
              seal_data    |-> 0,
              hash         |-> <<>>]
    IN  [b EXCEPT !.hash = calculate_hash(b)]

\* set_seal_data that leaves the cached hash as it was
set_seal_data_keeps_hash(b, seal_data) == [b EXCEPT !.seal_data = seal_data]

set_seal_data(b, seal_data) ==
    LET b1 == [b EXCEPT !.seal_data = seal_data]
    IN  [b1 EXCEPT !.hash = calculate_hash(b1)]

NoBlock == [parent_hash |-> <<>>, height |-> 0 - 1, transactions |-> <<>>, timestamp |-> 0,
            target |-> 0, is_genesis |-> FALSE, merkle |-> <<>>, seal_data |-> 0,
            hash |-> <<>>]

----------------------------------------------------------------------------
(* Chain (external collaborator) *)

Get(f, k) == IF k \in DOMAIN f THEN f[k] ELSE {}

EmptyChain == [blocks                |-> <<>>,
               blocks_containing_tx  |-> <<>>,
               blocks_spending_input |-> <<>>,
               all_transactions      |-> <<>>]

\* the block hashes from genesis to block_hash inclusive
RECURSIVE get_chain_ending_with(_, _)
get_chain_ending_with(c, block_hash) ==
    IF block_hash \notin DOMAIN c.blocks THEN <<>>
    ELSE IF c.blocks[block_hash].is_genesis THEN <<block_hash>>
    ELSE Append(get_chain_ending_with(c, c.blocks[block_hash].parent_hash), block_hash)

Range(s) == {s[k] : k \in 1..Len(s)}

\* every input reference of the transactions of list ts
RefsOf(ts) == UNION {Range(InputRefs(ts[k])) : k \in 1..Len(ts)}

\* accepting block b: the block set and the three indices change together
AddBlock(c, b) ==
    LET hs == {TxHash(b.transactions[k]) : k \in 1..Len(b.transactions)}
        rs == RefsOf(b.transactions)
    IN  [blocks |-> [h \in DOMAIN c.blocks \cup {b.hash} |->
                        IF h = b.hash THEN b ELSE c.blocks[h]],
         blocks_containing_tx |->
             [h \in DOMAIN c.blocks_containing_tx \cup hs |->
                 IF h \in hs THEN Get(c.blocks_containing_tx, h) \cup {b.hash}
                 ELSE c.blocks_containing_tx[h]],
         blocks_spending_input |->
             [r \in DOMAIN c.blocks_spending_input \cup rs |->
                 IF r \in rs THEN Get(c.blocks_spending_input, r) \cup {b.hash}
                 ELSE c.blocks_spending_input[r]],
         all_transactions |->
             [h \in DOMAIN c.all_transactions \cup hs |->
                 IF h \in hs
                 THEN CHOOSE t \in Range(b.transactions) : TxHash(t) = h
                 ELSE c.all_transactions[h]]]

----------------------------------------------------------------------------
(* Validation pipeline *)

Ret(accepted, reason) ==
    [raised |-> FALSE, accepted |-> accepted, reason |-> reason, stale |-> FALSE]

\* the call ends with an exception instead of a pair
Raise(exc) == [raised |-> TRUE, accepted |-> FALSE, reason |-> exc, stale |-> FALSE]

\* a check that found nothing: control goes on to the next statement
Pass == [raised |-> FALSE, accepted |-> TRUE, reason |-> "", stale |-> FALSE]

NoResult == [raised |-> FALSE, accepted |-> FALSE, reason |-> "", stale |-> FALSE]

\* the dict transactions: tx.hash -> index in the block (the last one wins)
TxIndex(b) ==
    [h \in {TxHash(b.transactions[k]) : k \in 1..Len(b.transactions)} |->
        CHOOSE k \in 1..Len(b.transactions) :
            /\ TxHash(b.transactions[k]) = h
            /\ \A m \in (k + 1)..Len(b.transactions) : TxHash(b.transactions[m]) # h]

\* seq[i] of Python for a list: defined for -len <= i < len
InRange(seq, i) == 0 - Len(seq) <= i /\ i < Len(seq)
Item(seq, i) == IF i >= 0 THEN seq[i + 1] ELSE seq[Len(seq) + i + 1]

\* chain.all_transactions[h] if h in chain.all_transactions else
\* self.transactions[transactions[h]]
LookupTx(b, c, h) ==
    IF h \in DOMAIN c.all_transactions THEN c.all_transactions[h]
    ELSE b.transactions[TxIndex(b)[h]]

\* the spend index alone decides, whatever branch the spending block is on
SpentAnywhere(b, c, r) == Cardinality(Get(c.blocks_spending_input, r)) >= 1

\* the spend index is met with the chain ending at the block itself
\* (all_blocks of line 136) in place of the chain ending at its parent
SpentOnOwnChain(b, c, r) ==
    LET spend == Get(c.blocks_spending_input, r)
        all_blocks == Range(get_chain_ending_with(c, b.hash))
    IN  Cardinality(spend) >= 1 /\ nonempty_intersection(all_blocks, spend)

\* Lines 260-263: reference r is spent by a block of the chain ending at the
\* parent of b
SpentOnParentChain(b, c, r) ==
    LET spend == Get(c.blocks_spending_input, r)
        parent_chain == Range(get_chain_ending_with(c, b.parent_hash))
    IN  Cardinality(spend) >= 1 /\ nonempty_intersection(parent_chain, spend)

\* The body of the loop over tx.input_refs for one reference r of transaction tx
CheckRef(b, c, tx, r, block_inputs) ==
    LET split == Split(r, ":")
    IN  IF Len(split) < 2 THEN Raise("IndexError")
        ELSE IF ~IsInt(split[2]) THEN Raise("ValueError")
        ELSE
        LET h == split[1]
            i == IntVal(split[2])
            parent_chain == Range(get_chain_ending_with(c, b.parent_hash))
        IN  IF h \notin DOMAIN c.all_transactions /\ h \notin DOMAIN TxIndex(b)
            THEN Ret(FALSE, "Required output not found")
            ELSE
            LET input_txs == LookupTx(b, c, h)
            IN  IF Len(Outputs(input_txs)) - 1 < i
                THEN Ret(FALSE, "Required output not found")
                ELSE IF ~InRange(Outputs(input_txs), i) THEN Raise("IndexError")
                ELSE
                LET receiver == Item(Outputs(input_txs), i).receiver
                    blocks_with_transaction == Get(c.blocks_containing_tx, h)
                IN  IF \E k \in 1..Len(Outputs(tx)) : Outputs(tx)[k].sender # receiver
                    THEN Ret(FALSE, "User inconsistencies")
                    ELSE IF SpentOnParentChain(b, c, r)
                    THEN Ret(FALSE, "Double-spent input")
                    ELSE IF \E k \in 1..Len(block_inputs) : block_inputs[k] = r
                    THEN Ret(FALSE, "Double-spent input")
                    ELSE IF h \notin DOMAIN TxIndex(b)
                            /\ ~nonempty_intersection(blocks_with_transaction, parent_chain)
                    THEN Ret(FALSE, "Input transaction not found")
                    ELSE Pass

\* The loop of lines 225-276 from transaction k, reference j on
RECURSIVE RefLoop(_, _, _, _, _)
RefLoop(b, c, k, j, block_inputs) ==
    IF k > Len(b.transactions) THEN Pass
    ELSE IF j > Len(InputRefs(b.transactions[k])) THEN RefLoop(b, c, k + 1, 1, block_inputs)
    ELSE LET r == InputRefs(b.transactions[k])[j]
             step == CheckRef(b, c, b.transactions[k], r, block_inputs)
         IN  IF step # Pass THEN step
             ELSE RefLoop(b, c, k, j + 1, Append(block_inputs, r))

Sum(outs) == LET RECURSIVE S(_)
                 S(n) == IF n = 0 THEN 0 ELSE S(n - 1) + outs[n].amount
             IN  S(Len(outs))

\* The loop of lines 284-297 from transaction k on.  input_transaction and i are
\* the locals of is_valid as the earlier iterations left them (unbound when never
\* assigned); stale: some iteration read them without assigning them.
RECURSIVE MoneyLoop(_, _, _, _, _, _)
MoneyLoop(b, c, k, input_transaction, i, stale) ==
    IF k > Len(b.transactions)
    THEN [Ret(TRUE, "All checks passed") EXCEPT !.stale = stale]
    ELSE
    LET tx == b.transactions[k]
        refs == InputRefs(tx)
        total_output == Sum(Outputs(tx))
        last == Split(refs[Len(refs)], ":")
        it1 == IF Len(refs) = 0 THEN input_transaction ELSE LookupTx(b, c, last[1])
        i1 == IF Len(refs) = 0 THEN i ELSE IntVal(last[2])
        stale1 == stale \/ (Len(refs) = 0 /\ input_transaction # "unbound")
    IN  IF it1 = "unbound" THEN Raise("UnboundLocalError")
        ELSE IF ~InRange(Outputs(it1), i1) THEN Raise("IndexError")
        ELSE IF Item(Outputs(it1), i1).amount < total_output
        THEN [Ret(FALSE, "Creating money") EXCEPT !.stale = stale1]
        ELSE MoneyLoop(b, c, k + 1, it1, i1, stale1)

\* Block.seal_is_valid (abstract): a stand-in that depends on the seal alone;
\* the 0 the constructor leaves in seal_data is no valid seal
seal_is_valid(b) == b.seal_data # 0

\* Lines 144-157: the checks that apply to all blocks
CommonChecks(b) ==
    IF b.merkle # calculate_merkle_root(b.transactions)
    THEN Ret(FALSE, "Merkle root failed to match")
    ELSE IF b.hash # calculate_hash(b) THEN Ret(FALSE, "Hash failed to match")
    ELSE IF Len(b.transactions) > MaxTxs THEN Ret(FALSE, "Too many transactions")
    ELSE Pass

\* the seal looked at before the height and the timestamp
ParentChecksSealFirst(b, c) ==
    IF b.parent_hash \notin DOMAIN c.blocks THEN Ret(FALSE, "Nonexistent parent")
    ELSE IF ~seal_is_valid(b) THEN Ret(FALSE, "Invalid seal")
    ELSE IF b.height # c.blocks[b.parent_hash].height + 1 THEN Ret(FALSE, "Invalid height")
    ELSE IF b.timestamp < c.blocks[b.parent_hash].timestamp
    THEN Ret(FALSE, "Invalid timestamp")
    ELSE Pass

\* Lines 172-190: parent, height, timestamp, seal
ParentChecks(b, c) ==
    IF b.parent_hash \notin DOMAIN c.blocks THEN Ret(FALSE, "Nonexistent parent")
    ELSE IF b.height # c.blocks[b.parent_hash].height + 1 THEN Ret(FALSE, "Invalid height")
    ELSE IF b.timestamp < c.blocks[b.parent_hash].timestamp
    THEN Ret(FALSE, "Invalid timestamp")
    ELSE IF ~seal_is_valid(b) THEN Ret(FALSE, "Invalid seal")
    ELSE Pass

\* Lines 194-216: malformed transactions and double inclusion
TxChecks(b, c) ==
    IF \E k \in 1..Len(b.transactions) : ~TxIsValid(b.transactions[k])
    THEN Ret(FALSE, "Malformed transaction included")
    ELSE IF Cardinality(DOMAIN TxIndex(b)) # Len(b.transactions)
    THEN Ret(FALSE, "Double transaction inclusion")
    ELSE IF \E k \in 1..Len(b.transactions) :
               nonempty_intersection(
                   Range(get_chain_ending_with(c, b.parent_hash)),
                   Get(c.blocks_containing_tx, TxHash(b.transactions[k])))
    THEN Ret(FALSE, "Double transaction inclusion")
    ELSE Pass

\* Block.is_valid of block b against chain c; all_blocks (line 136) is computed
\* first and never read
is_valid(b, c) ==
    LET all_blocks == get_chain_ending_with(c, b.hash)
        common == CommonChecks(b)
    IN  IF common # Pass THEN common
        ELSE IF b.is_genesis
        THEN IF b.height # 0 \/ b.parent_hash # <<"genesis">>
             THEN Ret(FALSE, "Invalid genesis")
             ELSE Ret(TRUE, "All checks passed")
        ELSE
        LET parent == ParentChecks(b, c)
        IN  IF parent # Pass THEN parent
            ELSE
            LET included == TxChecks(b, c)
            IN  IF included # Pass THEN included
                ELSE
                LET refs == RefLoop(b, c, 1, 1, <<>>)
                IN  IF refs # Pass THEN refs
                    ELSE MoneyLoop(b, c, 1, "unbound", 0, FALSE)

----------------------------------------------------------------------------
(* The chain the candidate blocks are offered to *)

GenesisBlock == BlockInit(0, <<"t0">>, <<"genesis">>, TRUE, TRUE, 0)

GenesisChain == AddBlock(EmptyChain, GenesisBlock)

\* genesis followed by one accepted block that spends t0:0 in ta
Block1 == set_seal_data(BlockInit(1, <<"ta">>, GenesisBlock.hash, FALSE, TRUE, 1), 1)

Chain1 == AddBlock(GenesisChain, Block1)

----------------------------------------------------------------------------
(* Inputs *)

\* all lists over the names S of length 0..n
RECURSIVE Lists(_, _)
Lists(S, n) == IF n = 0 THEN {<<>>}
               ELSE LET shorter == Lists(S, n - 1)
                    IN  shorter \cup {Append(l, t) : l \in shorter, t \in S}

\* one transaction more than is_valid allows
BigList == [k \in 1..(MaxTxs + 1) |-> "td"]

Heights == 0..2
Clock == {0, 1}
Seals == {0, 1, 2}
Targets == {1, 2}
ValidateTxs == TxNames \ {"t0"}
BlockTxs == {"ta", "tb"}
ChainTxs == {"ta", "tb", "tc", "tg"}
HeaderFields == {"height", "timestamp", "target", "parent_hash", "is_genesis",
                 "merkle", "seal_data"}

Parents == {<<"genesis">>} \cup DOMAIN chain.blocks

\* the values a direct assignment gives header field f
FieldValues(f) ==
    CASE f = "height"      -> Heights
      [] f = "timestamp"   -> Clock
      [] f = "target"      -> Targets
      [] f = "parent_hash" -> Parents
      [] f = "is_genesis"  -> BOOLEAN
      [] f = "merkle"      -> {calculate_merkle_root(<<>>),
                               calculate_merkle_root(blk.transactions)}
      [] f = "seal_data"   -> Seals

----------------------------------------------------------------------------
(* Operations *)

\* Block(height, transactions, parent_hash, is_genesis, include_merkle_root):
\* the candidate is constructed once
New(height, transactions, parent_hash, is_genesis, include_merkle_root, now) ==
    /\ blk = NoBlock
    /\ blk' = BlockInit(height, transactions, parent_hash, is_genesis,
                        include_merkle_root, now)
    /\ incl' = include_merkle_root
    /\ mut' = "none"
    /\ result' = NoResult
    /\ UNCHANGED <<chain, appended, txs, perm, roots>>

\* blk.set_seal_data(seal_data), before any direct assignment
SetSeal(seal_data) ==
    /\ blk # NoBlock
    /\ mut = "none"
    /\ blk' = set_seal_data(blk, seal_data)
    /\ result' = NoResult
    /\ UNCHANGED <<chain, incl, mut, appended, txs, perm, roots>>

\* blk.f = v for one header field f and a different value v, hash not recomputed
Assign(f, v) ==
    /\ blk # NoBlock
    /\ mut = "none"
    /\ v # blk[f]
    /\ blk' = [blk EXCEPT ![f] = v]
    /\ mut' = f
    /\ result' = NoResult
    /\ UNCHANGED <<chain, incl, appended, txs, perm, roots>>

\* blk.is_valid()
Validate ==
    /\ blk # NoBlock
    /\ result = NoResult
    /\ result' = is_valid(blk, chain)
    /\ UNCHANGED <<chain, blk, incl, mut, appended, txs, perm, roots>>

\* the chain takes the non-genesis block that is_valid accepted
AppendBlock ==
    /\ result.accepted
    /\ ~blk.is_genesis
    /\ blk.hash \notin DOMAIN chain.blocks
    /\ appended < MaxAppend
    /\ chain' = AddBlock(chain, blk)
    /\ appended' = appended + 1
    /\ blk' = NoBlock
    /\ incl' = TRUE
    /\ mut' = "none"
    /\ result' = NoResult
    /\ UNCHANGED <<txs, perm, roots>>

\* two transactions of the list change places
Swap(i, j) ==
    /\ i < j
    /\ perm' = [perm EXCEPT ![i] = perm[j], ![j] = perm[i]]
    /\ roots' = <<>>
    /\ UNCHANGED <<chain, blk, incl, mut, result, appended, txs>>

\* calculate_merkle_root() on both lists
Roots ==
    /\ roots = <<>>
    /\ roots' = <<calculate_merkle_root(txs), calculate_merkle_root(perm)>>
    /\ UNCHANGED <<chain, blk, incl, mut, result, appended, txs, perm>>

----------------------------------------------------------------------------
(* Specifications *)

InitBlock ==
    /\ blk = NoBlock
    /\ incl = TRUE
    /\ mut = "none"
    /\ result = NoResult
    /\ appended = 0

InitNoLists ==
    /\ txs = <<>>
    /\ perm = <<>>
    /\ roots = <<>>

\* Validation of candidate blocks against a fixed chain
NewCandidate ==
    /\ blk = NoBlock
    /\ \E h \in Heights, l \in Lists(ValidateTxs, MaxBlockTxs) \cup {BigList},
          p \in Parents, g \in BOOLEAN, m \in BOOLEAN, now \in Clock :
           New(h, l, p, g, m, now)

Seal == \E s \in Seals \ {2} : SetSeal(s)

AssignSeal == \E v \in Seals \ {2} : Assign("seal_data", v)

InitValidate == chain = Chain1 /\ InitBlock /\ InitNoLists

NextValidate == NewCandidate \/ Seal \/ AssignSeal \/ Validate

SpecValidate == InitValidate /\ [][NextValidate]_vars

\* Assembly of a block, direct assignments to its header fields, validation
NewBlock ==
    /\ blk = NoBlock
    /\ \E h \in Heights, l \in Lists(BlockTxs, MaxBlockTxs),
          p \in Parents, g \in BOOLEAN, m \in BOOLEAN, now \in Clock :
           New(h, l, p, g, m, now)

Reseal == \E s \in Seals : SetSeal(s)

AssignField == \E f \in HeaderFields : \E v \in FieldValues(f) : Assign(f, v)

NextBlock == NewBlock \/ Reseal \/ AssignField \/ Validate

SpecBlock == InitValidate /\ [][NextBlock]_vars

\* Growth of the chain: blocks assembled on an existing parent, sealed,
\* validated and, when accepted, added
Assemble ==
    /\ blk = NoBlock
    /\ \E l \in Lists(ChainTxs, MaxBlockTxs), p \in DOMAIN chain.blocks :
           New(chain.blocks[p].height + 1, l, p, FALSE, TRUE, 0)

SealOne == SetSeal(1)

InitChain == chain = GenesisChain /\ InitBlock /\ InitNoLists

NextChain == Assemble \/ SealOne \/ Validate \/ AppendBlock

SpecChain == InitChain /\ [][NextChain]_vars

\* The Merkle engine alone: a list of distinct transactions and its reorderings
OrderedNames == <<"t0", "ta", "tb", "tc", "td", "te", "tf">>

\* the sublists of OrderedNames of length 0..MaxLen, in the order of OrderedNames
SubList(S) ==
    [k \in 1..Cardinality(S) |->
        OrderedNames[CHOOSE x \in S : Cardinality({y \in S : y < x}) = k - 1]]

InitMerkle ==
    /\ chain = GenesisChain
    /\ InitBlock
    /\ \E S \in SUBSET (1..Len(OrderedNames)) :
           /\ Cardinality(S) <= MaxLen
           /\ txs = SubList(S)
    /\ perm = txs
    /\ roots = <<>>

Reorder == \E i \in 1..Len(perm), j \in 1..Len(perm) : Swap(i, j)

NextMerkle == Reorder \/ Roots

SpecMerkle == InitMerkle /\ [][NextMerkle]_vars

----------------------------------------------------------------------------
(* Merkle engine: claims C3 and C4, under SpecMerkle *)

\* The reference construction: at every layer with more than one node an
\* odd-length layer is padded with its last node before the pairs are combined
RECURSIVE MerkleLayers(_)
MerkleLayers(layer) ==
    IF Len(layer) = 1 THEN layer[1]
    ELSE LET padded == IF Len(layer) % 2 = 1 THEN Append(layer, layer[Len(layer)])
                       ELSE layer
         IN  MerkleLayers([k \in 1..(Len(padded) \div 2) |->
                              sha256_2_string(padded[2 * k - 1] \o padded[2 * k])])

MerkleRoot(transactions) ==
    IF Len(transactions) = 0 THEN sha256_2_string(<<>>)
    ELSE IF Len(transactions) = 1 THEN sha256_2_string(TxStr(transactions[1]))
    ELSE MerkleLayers([k \in 1..Len(transactions) |->
                          sha256_2_string(TxStr(transactions[k]))])

\* C3: for every transaction list, calculate_merkle_root equals the reference
\* Merkle root, which pads at every odd layer so that every leaf contributes.
C3_MatchesReference ==
    roots # <<>> => roots[1] = MerkleRoot(txs) /\ roots[2] = MerkleRoot(perm)

\* C4: for pairwise distinct transactions (at least two), every reordering
\* that is not the identity changes the Merkle root; equal lists give equal roots.
C4_OrderSensitive ==
    roots # <<>> =>
        /\ (perm = txs => roots[1] = roots[2])
        /\ (Len(txs) >= 2 /\ perm # txs => roots[1] # roots[2])

----------------------------------------------------------------------------
(* Block identity: claims C7 and C9, under SpecBlock *)

MerkleMatches == blk.merkle = calculate_merkle_root(blk.transactions)

HashMatches == blk.hash = calculate_hash(blk)

IdentityReasons == {"Merkle root failed to match", "Hash failed to match"}

\* C7 (as stated): after one header field of a block with a matching hash is
\* given a different value and hash is not recomputed, is_valid returns
\* (False, Hash failed to match).
C7_AnyFieldHashMismatch ==
    (mut # "none" /\ result # NoResult) => result = Ret(FALSE, "Hash failed to match")

\* C7 (amended): after such an assignment is_valid rejects the block, with
\* Merkle root failed to match when the stored merkle then differs from
\* calculate_merkle_root(), and with Hash failed to match otherwise.
C7_FieldChangeRejected ==
    (mut # "none" /\ result # NoResult) =>
        result = IF MerkleMatches THEN Ret(FALSE, "Hash failed to match")
                 ELSE Ret(FALSE, "Merkle root failed to match")

\* C7 witness: seal_data of a sealed block was assigned directly, and is_valid
\* answered Hash failed to match
C7_Witness ==
    /\ mut = "seal_data"
    /\ blk.seal_data = 2
    /\ Len(blk.transactions) = 2
    /\ result = Ret(FALSE, "Hash failed to match")

\* C9 (as stated): a block made by the constructor, with any arguments, and
\* any number of set_seal_data calls has merkle = calculate_merkle_root() and
\* hash = calculate_hash(), and is_valid never rejects it for either.
C9_IdentityAnyArguments ==
    (blk # NoBlock /\ mut = "none") =>
        /\ MerkleMatches
        /\ HashMatches
        /\ result.reason \notin IdentityReasons

\* C9 (amended): such a block always has hash = calculate_hash(); it has
\* merkle = calculate_merkle_root(), and is never rejected for its Merkle root
\* or hash, when include_merkle_root was True or it holds at most one transaction.
C9_IdentityAfterAssembly ==
    (blk # NoBlock /\ mut = "none") =>
        /\ HashMatches
        /\ (incl \/ Len(blk.transactions) <= 1) =>
               MerkleMatches /\ result.reason \notin IdentityReasons

\* C9 witness: a block of two transactions, resealed, validated
C9_Witness ==
    /\ mut = "none"
    /\ incl
    /\ Len(blk.transactions) = 2
    /\ blk.seal_data = 2
    /\ result # NoResult

----------------------------------------------------------------------------
(* What the checks of section 4.4 ask, stated over the block and the blocks of
   its lineage rather than over the loop of is_valid and the indices *)

\* every input reference of the block with the transaction that holds it, in
\* block order
FlatRefs(b) ==
    Concat([k \in 1..Len(b.transactions) |->
               [j \in 1..Len(InputRefs(b.transactions[k])) |->
                   [tx |-> b.transactions[k], r |-> InputRefs(b.transactions[k])[j]]]])

\* the blocks from genesis to the parent of b
Lineage(b, c) == {c.blocks[e] : e \in Range(get_chain_ending_with(c, b.parent_hash))}

HashesIn(ts) == {TxHash(ts[k]) : k \in 1..Len(ts)}

WellFormed(r) == Len(Split(r, ":")) >= 2 /\ IsInt(Split(r, ":")[2])
RefHash(r) == Split(r, ":")[1]
RefIndex(r) == IntVal(Split(r, ":")[2])

Known(b, c, r) ==
    RefHash(r) \in DOMAIN c.all_transactions \cup HashesIn(b.transactions)

\* the outputs of the transaction r names
RefOutputs(b, c, r) == Outputs(LookupTx(b, c, RefHash(r)))

\* 5g: r names a known transaction and one of its outputs
Resolvable(b, c, r) ==
    /\ WellFormed(r)
    /\ Known(b, c, r)
    /\ 0 <= RefIndex(r)
    /\ RefIndex(r) < Len(RefOutputs(b, c, r))

\* 5h: the transaction r names is in this block or in a block of the lineage
OnLineage(b, c, r) ==
    \/ RefHash(r) \in HashesIn(b.transactions)
    \/ \E a \in Lineage(b, c) : RefHash(r) \in HashesIn(a.transactions)

\* 5i: every output of tx is sent by the receiver of the output r names
UserConsistent(b, c, tx, r) ==
    \A k \in 1..Len(Outputs(tx)) :
        Outputs(tx)[k].sender = Item(RefOutputs(b, c, r), RefIndex(r)).receiver

\* 5j: a block of the lineage spends r
SpentOnLineage(b, c, r) == \E a \in Lineage(b, c) : r \in RefsOf(a.transactions)

\* 5j: the reference at position n was already used at an earlier position
UsedBefore(b, n) == \E m \in 1..(n - 1) : FlatRefs(b)[m].r = FlatRefs(b)[n].r

\* 5k: the amounts of the outputs that all input references of tx name
InputTotal(b, c, tx) ==
    LET RECURSIVE S(_)
        S(n) == IF n = 0 THEN 0
                ELSE S(n - 1) + Item(RefOutputs(b, c, InputRefs(tx)[n]),
                                     RefIndex(InputRefs(tx)[n])).amount
    IN  S(Len(InputRefs(tx)))

CreatesMoney(b, c) ==
    \E k \in 1..Len(b.transactions) :
        Sum(Outputs(b.transactions[k])) > InputTotal(b, c, b.transactions[k])

\* steps 1-5f, in the order of section 4.4: the reason of the first one that
\* fails, Genesis for a genesis block that passes, and nothing otherwise
EarlyReason(b, c) ==
    IF b.merkle # calculate_merkle_root(b.transactions) THEN "Merkle root failed to match"
    ELSE IF b.hash # calculate_hash(b) THEN "Hash failed to match"
    ELSE IF Len(b.transactions) >= MaxTxs + 1 THEN "Too many transactions"
    ELSE IF b.is_genesis /\ ~(b.height = 0 /\ b.parent_hash = <<"genesis">>)
    THEN "Invalid genesis"
    ELSE IF b.is_genesis THEN "Genesis"
    ELSE IF ~\E e \in DOMAIN c.blocks : e = b.parent_hash THEN "Nonexistent parent"
    ELSE IF b.height - 1 # c.blocks[b.parent_hash].height THEN "Invalid height"
    ELSE IF c.blocks[b.parent_hash].timestamp > b.timestamp THEN "Invalid timestamp"
    ELSE IF ~seal_is_valid(b) THEN "Invalid seal"
    ELSE IF \E t \in Range(b.transactions) : ~TxIsValid(t)
    THEN "Malformed transaction included"
    ELSE IF \/ \E k, m \in 1..Len(b.transactions) :
                  k < m /\ TxHash(b.transactions[k]) = TxHash(b.transactions[m])
            \/ \E a \in Lineage(b, c) :
                  HashesIn(a.transactions) \cap HashesIn(b.transactions) # {}
    THEN "Double transaction inclusion"
    ELSE ""

Positions(b) == 1..Len(FlatRefs(b))

\* the reason section 4.4 gives: every check taken over the whole block, in
\* the order g, h, i, j, k
SpecOrderReason(b, c) ==
    LET flat == FlatRefs(b)
    IN  IF EarlyReason(b, c) = "Genesis" THEN "All checks passed"
        ELSE IF EarlyReason(b, c) # "" THEN EarlyReason(b, c)
        ELSE IF \E n \in Positions(b) : ~Resolvable(b, c, flat[n].r)
        THEN "Required output not found"
        ELSE IF \E n \in Positions(b) : ~OnLineage(b, c, flat[n].r)
        THEN "Input transaction not found"
        ELSE IF \E n \in Positions(b) : ~UserConsistent(b, c, flat[n].tx, flat[n].r)
        THEN "User inconsistencies"
        ELSE IF \E n \in Positions(b) : SpentOnLineage(b, c, flat[n].r) \/ UsedBefore(b, n)
        THEN "Double-spent input"
        ELSE IF CreatesMoney(b, c) THEN "Creating money"
        ELSE "All checks passed"

\* what the reference at position n meets when its four checks are applied to
\* it alone in the order g, i, j, h, the index test of g being i > last index
RefVerdict(b, c, n) ==
    LET tx == FlatRefs(b)[n].tx
        r == FlatRefs(b)[n].r
    IN  IF ~WellFormed(r) THEN "raise"
        ELSE IF ~Known(b, c, r) \/ RefIndex(r) >= Len(RefOutputs(b, c, r))
        THEN "Required output not found"
        ELSE IF RefIndex(r) + Len(RefOutputs(b, c, r)) < 0 THEN "raise"
        ELSE IF ~UserConsistent(b, c, tx, r) THEN "User inconsistencies"
        ELSE IF SpentOnLineage(b, c, r) \/ UsedBefore(b, n) THEN "Double-spent input"
        ELSE IF ~OnLineage(b, c, r) THEN "Input transaction not found"
        ELSE ""

\* reference by reference: the verdict of the first reference that has one
RefOrderReason(b, c) ==
    IF \A n \in Positions(b) : RefVerdict(b, c, n) = "" THEN ""
    ELSE RefVerdict(b, c, CHOOSE n \in Positions(b) :
                              /\ RefVerdict(b, c, n) # ""
                              /\ \A m \in 1..(n - 1) : RefVerdict(b, c, m) = "")

Validated == result # NoResult

PerRefReasons == {"Required output not found", "Input transaction not found",
                  "User inconsistencies", "Double-spent input"}

Reasons == {"Merkle root failed to match", "Hash failed to match",
            "Too many transactions", "Invalid genesis", "Nonexistent parent",
            "Invalid height", "Invalid timestamp", "Invalid seal",
            "Malformed transaction included", "Double transaction inclusion",
            "Creating money"} \cup PerRefReasons

----------------------------------------------------------------------------
(* Validation pipeline: claims C1, C2, C5 and C8, under SpecValidate *)

PassesBeforeMoney(b, c) ==
    SpecOrderReason(b, c) \in {"Creating money", "All checks passed"}

\* C2: for a non-genesis block that passes all earlier checks, a call that
\* returns without reading a stale local returns (False, Creating money) if
\* and only if some transaction has a total output amount greater than the sum
\* of the amounts of the outputs that all its input references name.
C2_ValueConservation ==
    (Validated /\ ~blk.is_genesis /\ PassesBeforeMoney(blk, chain)
       /\ ~result.raised /\ ~result.stale)
        => (result = Ret(FALSE, "Creating money") <=> CreatesMoney(blk, chain))

\* C5: is_valid returns a pair, accepted with All checks passed or rejected
\* with a reason of section 4.4; it never raises and never reads an unassigned
\* or stale local.
C5_Total ==
    Validated =>
        /\ ~result.raised
        /\ ~result.stale
        /\ result.reason \in Reasons \cup {"All checks passed"}
        /\ result.accepted <=> result.reason = "All checks passed"

\* C8: every input reference of an accepted non-genesis block names a known
\* transaction and an index i with 0 <= i < its number of outputs; and when
\* steps 1-5f pass and the references before the first one that is not so
\* pass all their checks, the block is rejected with Required output not found.
C8_RequiredOutput ==
    (Validated /\ ~blk.is_genesis) =>
        /\ result.accepted =>
               \A n \in Positions(blk) : Resolvable(blk, chain, FlatRefs(blk)[n].r)
        /\ \A n \in Positions(blk) :
               (/\ EarlyReason(blk, chain) = ""
                /\ WellFormed(FlatRefs(blk)[n].r)
                /\ ~Resolvable(blk, chain, FlatRefs(blk)[n].r)
                /\ \A m \in 1..(n - 1) : RefVerdict(blk, chain, m) = "")
                   => result = Ret(FALSE, "Required output not found")

----------------------------------------------------------------------------
(* Forks: claims C6 and C10, under SpecChain *)

\* steps 1-5i pass, each taken over the whole block
PassesBeforeSpendCheck(b, c) ==
    /\ EarlyReason(b, c) = ""
    /\ \A n \in Positions(b) :
           /\ Resolvable(b, c, FlatRefs(b)[n].r)
           /\ OnLineage(b, c, FlatRefs(b)[n].r)
           /\ UserConsistent(b, c, FlatRefs(b)[n].tx, FlatRefs(b)[n].r)

NonGenesis(L) == {n \in 1..Len(L) : ~chain.blocks[L[n]].is_genesis}

====
